---- MODULE Spec2Model ----
(***************************************************************************)
(* A model of the gdbm crate (src/src/lib.rs): the safe wrapper `Gdbm`     *)
(* around the foreign gdbm engine.  The wrapper's functions are translated *)
(* from lib.rs; the engine behind the foreign calls (gdbm_open, gdbm_store,*)
(* gdbm_fetch, gdbm_delete, gdbm_exists, gdbm_close, the error channel) is *)
(* an external library and is modelled by its contract in spec.md Sect. 6. *)
(*                                                                         *)
(* Unsigned numbers (usize lengths, u32 arguments) are records [n, over]   *)
(* standing for n + over, with over > 0 only when n = I32_MAX: the model   *)
(* checker's integers are 32 bits wide, and this writes down the values    *)
(* just past 2^31 - 1.  Byte sequences are records [bytes, pad, over]: the *)
(* explicit bytes followed by pad + over filler bytes 'a' (0x61), with     *)
(* Len(bytes) + pad <= I32_MAX.                                            *)
(***************************************************************************)
EXTENDS Integers, Sequences, FiniteSets, TLC

VARIABLES
    db,          \* the database file: stored key |-> stored content
    hstate,      \* engine side: foreign handle |-> "unopened" | "open" | "closed"
    closes,      \* engine side: foreign handle |-> number of gdbm_close calls
    gdbm,        \* Rust side: slot |-> NoValue or a live Gdbm value
    gdbm_errno,  \* thread |-> the engine's (thread-local) last-error code
    pend,        \* thread |-> Idle or the call the thread is returning from
    last         \* the most recently completed operation (observation)

vars == <<db, hstate, closes, gdbm, gdbm_errno, pend, last>>

----------------------------------------------------------------------------
(* Bounds *)

MaxHandles == 2
MaxLen == 2

(* Program constants *)

I32_MAX == 2147483647
INSERT == 0
REPLACE == 1
WRCREAT == 2
NEWDB == 3
NULL == 0

----------------------------------------------------------------------------
(* Byte sequences *)

U(n) == [n |-> n, over |-> 0]

\* I32_MAX + k, for k >= 1
Over(k) == [n |-> I32_MAX, over |-> k]

Bytes(s) == [bytes |-> s, pad |-> 0, over |-> 0]

\* s followed by filler up to I32_MAX bytes in all, and `over` more
Filled(s, over) == [bytes |-> s, pad |-> I32_MAX - Len(s), over |-> over]

\* data.len()
len(d) == [n |-> Len(d.bytes) + d.pad, over |-> d.over]

\* x > i32::MAX as usize
gt_i32_max(x) == x.over > 0

\* `x as i32` of a usize / u32: values past I32_MAX wrap to the negatives
as_i32(x) == IF x.over = 0 THEN x.n ELSE (-I32_MAX - 1) + (x.over - 1)

\* the first n bytes of the memory at d (what a reader of a (ptr, n)
\* descriptor sees; the model's memory ends with d, and n <= 0 reads nothing)
take(d, n) ==
    IF n <= 0 THEN Bytes(<<>>)
    ELSE IF d.over = 0 /\ n >= Len(d.bytes) + d.pad THEN d
    ELSE IF n >= Len(d.bytes)
         THEN [bytes |-> d.bytes, pad |-> n - Len(d.bytes), over |-> 0]
    ELSE Bytes(SubSeq(d.bytes, 1, n))

----------------------------------------------------------------------------
(* Results and errors *)

Ok(v) == [ok |-> TRUE, val |-> v]

Err(e) == [ok |-> FALSE, err |-> e]

\* GdbmError::new
GdbmErrorNew(msg) == [tag |-> "Error", msg |-> msg]

NulError == [tag |-> "NulError", msg |-> "nul byte found in provided data"]

FromUtf8Error == [tag |-> "FromUtf8Error", msg |-> "invalid utf-8 sequence"]

\* one entry of an operation's trace: a foreign call (with the foreign handle
\* it was issued on and that handle's state at the time) or an access to a
\* foreign buffer
Ev(fn) == [fn |-> fn, h |-> NULL, st |-> "-"]

HState(h) == IF h = NULL THEN "null" ELSE hstate[h]

CallOn(fn, h) == [fn |-> fn, h |-> h, st |-> HState(h)]

----------------------------------------------------------------------------
(* fn datum *)

datum_unchecked(what, data) ==
    [ok |-> TRUE, d |-> [dptr |-> data, dsize |-> as_i32(len(data))]]

datum(what, data) ==
    IF gt_i32_max(len(data))
    THEN [ok |-> FALSE,
          err |-> GdbmErrorNew(IF what = "key" THEN "key too large"
                               ELSE "content too large")]
    ELSE [ok |-> TRUE, d |-> [dptr |-> data, dsize |-> as_i32(len(data))]]

----------------------------------------------------------------------------
(* The foreign engine (contract of spec.md Sect. 6).  Every engine entry   *)
(* point may report a failure (`fault` is the error code it records, 0 for *)
(* none); a failing call leaves the database as it was.                    *)

\* gdbm error codes the engine records in the model: 4 (file write error);
\* 0 is GDBM_NO_ERROR
ErrCodes == {4}

Faults == {0} \cup ErrCodes

gdbm_strerror(code) ==
    CASE code = 0 -> "No error"
      [] code = 4 -> "File write error"
      [] code = 6 -> "File read error"
      [] OTHER -> "Unknown error"

EmptyDb == [k \in {} |-> k]

Reply(rc, null, mem, dsize, errno) ==
    [rc |-> rc, null |-> null, mem |-> mem, dsize |-> dsize, errno |-> errno]

NoReply == Reply(0, TRUE, Bytes(<<>>), 0, 0)

\* gdbm_open(path, block_size, flags, mode, NULL): `fresh` is the handle the
\* engine hands out when it does not fail
gdbm_open(d, flags, fault, fresh) ==
    IF fault # 0
    THEN [handle |-> NULL, db |-> d, errno |-> fault]
    ELSE [handle |-> fresh,
          db |-> IF flags % 4 = NEWDB THEN EmptyDb ELSE d,
          errno |-> 0]

\* gdbm_store: negative = failure, 0 = stored, positive = key exists (insert)
gdbm_store(d, key, content, flag, fault) ==
    LET k == take(key.dptr, key.dsize)
        c == take(content.dptr, content.dsize)
    IN  IF fault # 0 THEN [rc |-> -1, db |-> d, errno |-> fault]
        ELSE IF k \in DOMAIN d /\ flag # REPLACE
             THEN [rc |-> 1, db |-> d, errno |-> 0]
        ELSE [rc |-> 0,
              db |-> [x \in DOMAIN d \cup {k} |-> IF x = k THEN c ELSE d[x]],
              errno |-> 0]

\* gdbm_fetch: a malloc'd copy of the record, or a null dptr for not-found
\* (no error recorded) and for failure (error recorded); `corrupt` is the
\* engine handing back a buffer with a negative size
gdbm_fetch(d, key, fault, corrupt) ==
    LET k == take(key.dptr, key.dsize)
    IN  IF fault # 0 THEN Reply(0, TRUE, Bytes(<<>>), 0, fault)
        ELSE IF k \notin DOMAIN d THEN Reply(0, TRUE, Bytes(<<>>), 0, 0)
        ELSE IF corrupt THEN Reply(0, FALSE, d[k], -1, 0)
        ELSE Reply(0, FALSE, d[k], as_i32(len(d[k])), 0)

\* gdbm_delete: -1 for not-found (no error recorded) or failure, else 0
gdbm_delete(d, key, fault) ==
    LET k == take(key.dptr, key.dsize)
    IN  IF fault # 0 THEN [rc |-> -1, db |-> d, errno |-> fault]
        ELSE IF k \notin DOMAIN d THEN [rc |-> -1, db |-> d, errno |-> 0]
        ELSE [rc |-> 0, db |-> [x \in DOMAIN d \ {k} |-> d[x]], errno |-> 0]

\* gdbm_exists: 0 for found, nonzero otherwise
gdbm_exists(d, key, fault) ==
    LET k == take(key.dptr, key.dsize)
    IN  IF fault # 0 THEN [rc |-> 1, errno |-> fault]
        ELSE IF k \in DOMAIN d THEN [rc |-> 0, errno |-> 0]
        ELSE [rc |-> 1, errno |-> 0]

----------------------------------------------------------------------------
(* String::from_utf8, str::ends_with, String::pop *)

RECURSIVE Utf8ValidSeq(_)
Utf8ValidSeq(s) ==
    IF s = <<>> THEN TRUE
    ELSE LET b == s[1]
             n == Len(s)
             cont(i) == i <= n /\ s[i] \in 128..191
             rest(i) == Utf8ValidSeq(SubSeq(s, i, n))
         IN  IF b < 128 THEN rest(2)
             ELSE IF b \in 194..223 THEN cont(2) /\ rest(3)
             ELSE IF b \in 224..239
                  THEN /\ n >= 3
                       /\ s[2] \in (IF b = 224 THEN 160..191
                                    ELSE IF b = 237 THEN 128..159
                                    ELSE 128..191)
                       /\ cont(3)
                       /\ rest(4)
             ELSE IF b \in 240..244
                  THEN /\ n >= 4
                       /\ s[2] \in (IF b = 240 THEN 144..191
                                    ELSE IF b = 244 THEN 128..143
                                    ELSE 128..191)
                       /\ cont(3)
                       /\ cont(4)
                       /\ rest(5)
             ELSE FALSE

\* the padding is ASCII, so it is valid and ends any sequence before it
from_utf8(vec) ==
    IF Utf8ValidSeq(vec.bytes) THEN Ok(vec) ELSE Err(FromUtf8Error)

\* s.ends_with("\0")
ends_with_nul(s) ==
    s.pad = 0 /\ s.over = 0 /\ Len(s.bytes) > 0 /\ s.bytes[Len(s.bytes)] = 0

\* s.pop(): removes the last char, the bytes back to the last one that is
\* not a continuation byte
RECURSIVE pop_seq(_)
pop_seq(s) ==
    IF s = <<>> THEN s
    ELSE IF s[Len(s)] \in 128..191 THEN pop_seq(SubSeq(s, 1, Len(s) - 1))
    ELSE SubSeq(s, 1, Len(s) - 1)

pop(s) ==
    IF s.over > 0 THEN [s EXCEPT !.over = s.over - 1]
    ELSE IF s.pad > 0 THEN [s EXCEPT !.pad = s.pad - 1]
    ELSE Bytes(pop_seq(s.bytes))

----------------------------------------------------------------------------
(* The wrapper: error channel reader *)

\* fn get_error: the message of the calling thread's last-error code, and
\* the foreign calls made to get it
get_error_after_sync(t) ==
    [msg |-> gdbm_strerror(0),
     trace |-> <<Ev("gdbm_sync"), Ev("gdbm_errno_location"), Ev("gdbm_strerror")>>]

get_error(t) ==
    [msg |-> gdbm_strerror(gdbm_errno[t]),
     trace |-> <<Ev("gdbm_errno_location"), Ev("gdbm_strerror")>>]

----------------------------------------------------------------------------
(* The wrapper: Gdbm::new and Drop *)

new_check(block_size, flags, mode, nul) ==
    IF gt_i32_max(block_size) THEN Err(GdbmErrorNew("block_size too large"))
    ELSE IF gt_i32_max(mode) THEN Err(GdbmErrorNew("invalid mode"))
    ELSE IF nul THEN Err(NulError)
    ELSE Ok([block_size |-> as_i32(block_size),
             flags |-> as_i32(U(flags)),
             mode |-> as_i32(mode)])

new_ret(db_ptr, t) ==
    IF db_ptr = NULL THEN Err(GdbmErrorNew("gdbm_open failed"))
    ELSE Ok([db_handle |-> db_ptr, owner |-> t])

\* Drop::drop: the handles gdbm_close is called on
drop_leak(db_handle) == <<>>

drop(db_handle) ==
    IF db_handle = NULL THEN <<>> ELSE <<db_handle>>

----------------------------------------------------------------------------
(* The wrapper: store, fetch_data, fetch_string, fetch_cstring, delete,     *)
(* exists.  Each is split at its one engine call: the part before it       *)
(* (`_call`: the descriptors handed to the engine, or the early error) and *)
(* the part after it (`_ret`: the result and the trace of what it did).    *)

key_call(key) ==
    LET kd == datum("key", key)
    IN  IF ~kd.ok THEN Err(kd.err) ELSE Ok([key |-> kd.d])

store_call_swapped(key, content, replace) ==
    LET kd == datum("key", key)
        cd == datum("content", content)
    IN  IF ~kd.ok THEN Err(kd.err)
        ELSE IF ~cd.ok THEN Err(cd.err)
        ELSE Ok([key |-> kd.d, content |-> cd.d,
                 flag |-> IF replace THEN INSERT ELSE REPLACE])

store_call(key, content, replace) ==
    LET kd == datum("key", key)
    IN  IF ~kd.ok THEN Err(kd.err)
        ELSE LET cd == datum("content", content)
             IN  IF ~cd.ok THEN Err(cd.err)
                 ELSE Ok([key |-> kd.d, content |-> cd.d,
                          flag |-> IF replace THEN REPLACE ELSE INSERT])

store_ret_always_true(result, t) ==
    IF result < 0
    THEN [ret |-> Err(GdbmErrorNew(get_error(t).msg)), trace |-> get_error(t).trace]
    ELSE [ret |-> Ok(TRUE), trace |-> <<>>]

store_ret(result, t) ==
    IF result < 0
    THEN [ret |-> Err(GdbmErrorNew(get_error(t).msg)), trace |-> get_error(t).trace]
    ELSE [ret |-> Ok(result = 0), trace |-> <<>>]

fetch_data_ret_fixed_msg(content, t) ==
    IF content.null
    THEN [ret |-> Err(GdbmErrorNew("gdbm_fetch failed")), trace |-> <<>>]
    ELSE IF content.dsize < 0
    THEN [ret |-> Err(GdbmErrorNew("content has negative size")), trace |-> <<>>]
    ELSE [ret |-> Ok(take(content.mem, content.dsize)),
          trace |-> <<Ev("read_buf"), Ev("free")>>]

fetch_data_ret(content, t) ==
    IF content.null
    THEN [ret |-> Err(GdbmErrorNew(get_error(t).msg)), trace |-> get_error(t).trace]
    ELSE IF content.dsize < 0
    THEN [ret |-> Err(GdbmErrorNew("content has negative size")), trace |-> <<>>]
    ELSE [ret |-> Ok(take(content.mem, content.dsize)),
          trace |-> <<Ev("read_buf"), Ev("free")>>]

fetch_string_ret(content, t) ==
    LET f == fetch_data_ret(content, t)
    IN  IF ~f.ret.ok THEN f
        ELSE [ret |-> from_utf8(f.ret.val), trace |-> f.trace]

RECURSIVE trim_all_nul(_)
trim_all_nul(s) == IF ends_with_nul(s) THEN trim_all_nul(pop(s)) ELSE s

fetch_cstring_ret_trim_all(content, t) ==
    LET f == fetch_string_ret(content, t)
    IN  IF ~f.ret.ok THEN f
        ELSE [ret |-> Ok(trim_all_nul(f.ret.val)), trace |-> f.trace]

fetch_cstring_ret(content, t) ==
    LET f == fetch_data_ret(content, t)
    IN  IF ~f.ret.ok THEN f
        ELSE LET s == from_utf8(f.ret.val)
             IN  IF ~s.ok THEN [ret |-> s, trace |-> f.trace]
                 ELSE [ret |-> Ok(IF ends_with_nul(s.val) THEN pop(s.val)
                                  ELSE s.val),
                       trace |-> f.trace]

delete_ret_no_check(result, t) ==
    IF result < 0
    THEN [ret |-> Err(GdbmErrorNew(get_error(t).msg)),
          trace |-> get_error(t).trace]
    ELSE [ret |-> Ok(TRUE), trace |-> <<>>]

delete_ret(result, t) ==
    IF result < 0
    THEN IF gdbm_errno[t] = 0
         THEN [ret |-> Ok(FALSE), trace |-> <<Ev("gdbm_errno_location")>>]
         ELSE [ret |-> Err(GdbmErrorNew(get_error(t).msg)),
               trace |-> <<Ev("gdbm_errno_location")>> \o get_error(t).trace]
    ELSE [ret |-> Ok(TRUE), trace |-> <<>>]

exists_ret(result, t) ==
    IF result = 0 THEN [ret |-> Ok(TRUE), trace |-> <<>>]
    ELSE IF gdbm_errno[t] = 0
         THEN [ret |-> Ok(TRUE), trace |-> <<Ev("gdbm_errno_location")>>]
         ELSE [ret |-> Err(GdbmErrorNew(get_error(t).msg)),
               trace |-> <<Ev("gdbm_errno_location")>> \o get_error(t).trace]

----------------------------------------------------------------------------
(* State *)

Threads == {"t1", "t2"}

Handles == 1..MaxHandles

NoValue == [db_handle |-> NULL, owner |-> "-"]

Idle == [op |-> "idle"]

world == <<db, hstate, closes, gdbm, gdbm_errno>>

\* the database an operation starts with
Pre == [db |-> db]

\* a completed operation: its name, thread, slot and arguments, the state it
\* started in, whether it reached its engine call and what the engine
\* replied, its result, and the foreign calls and buffer accesses it made
Done(op, t, s, a, pre, called, reply, ret, trace) ==
    [op |-> op, t |-> t, s |-> s, a |-> a, pre |-> pre, called |-> called,
     reply |-> reply, ret |-> ret, trace |-> trace]

InCall(op, t, s, a, pre, reply, trace) ==
    [op |-> op, t |-> t, s |-> s, a |-> a, pre |-> pre, reply |-> reply,
     trace |-> trace]

KeyArgs(key, content, replace) ==
    [key |-> key, content |-> content, replace |-> replace]

Complete(t, rec) ==
    /\ last' = rec
    /\ pend' = [pend EXCEPT ![t] = Idle]

Init ==
    /\ db = EmptyDb
    /\ hstate = [h \in Handles |-> "unopened"]
    /\ closes = [h \in Handles |-> 0]
    /\ gdbm = [s \in Handles |-> NoValue]
    /\ gdbm_errno = [t \in Threads |-> 0]
    /\ pend = [t \in Threads |-> Idle]
    /\ last = Done("none", "t1", 1, KeyArgs(Bytes(<<>>), Bytes(<<>>), FALSE),
                   [db |-> EmptyDb], FALSE, NoReply, Ok(TRUE), <<>>)

\* thread t may use the value in slot s
Owns(t, s) ==
    /\ pend[t].op = "idle"
    /\ gdbm[s] # NoValue
    /\ gdbm[s].owner = t

----------------------------------------------------------------------------
(* Actions *)

\* the value made by Gdbm::new is kept in the slot numbered like the handle
\* the engine hands out next
New(t, block_size, flags, mode, nul) ==
    /\ pend[t].op = "idle"
    /\ \E s \in Handles :
        /\ gdbm[s] = NoValue
        /\ s = Cardinality({h \in Handles : hstate[h] # "unopened"}) + 1
        /\ LET chk == new_check(block_size, flags, mode, nul)
               a == [block_size |-> block_size, flags |-> flags,
                     mode |-> mode, nul |-> nul]
           IN  IF ~chk.ok
               THEN /\ UNCHANGED world
                    /\ Complete(t, Done("new", t, s, a, Pre, FALSE, NoReply,
                                        chk, <<>>))
               ELSE \E fault \in Faults :
                    LET r == gdbm_open(db, chk.val.flags, fault, s)
                        out == new_ret(r.handle, t)
                    IN  /\ db' = r.db
                        /\ hstate' = IF r.handle \in Handles
                                     THEN [hstate EXCEPT ![r.handle] = "open"]
                                     ELSE hstate
                        /\ gdbm_errno' = [gdbm_errno EXCEPT ![t] = r.errno]
                        /\ gdbm' = IF out.ok THEN [gdbm EXCEPT ![s] = out.val]
                                   ELSE gdbm
                        /\ UNCHANGED closes
                        /\ Complete(t, Done("new", t, s, a, Pre, TRUE,
                                Reply(r.handle, r.handle = NULL, Bytes(<<>>),
                                      0, r.errno),
                                out, <<Ev("gdbm_open")>>))

Drop(t, s) ==
    /\ Owns(t, s)
    /\ LET h == gdbm[s].db_handle
           cl == drop(h)
           n(x) == Cardinality({i \in 1..Len(cl) : cl[i] = x})
       IN  /\ hstate' = [x \in Handles |->
                            IF n(x) > 0 THEN "closed" ELSE hstate[x]]
           /\ closes' = [x \in Handles |-> closes[x] + n(x)]
           /\ gdbm' = [gdbm EXCEPT ![s] = NoValue]
           /\ UNCHANGED <<db, gdbm_errno>>
           /\ Complete(t, Done("drop", t, s, [db_handle |-> h], Pre,
                   cl # <<>>, NoReply, Ok("unit"),
                   [i \in 1..Len(cl) |->
                       [fn |-> "gdbm_close", h |-> cl[i],
                        st |-> IF \E j \in 1..(i - 1) : cl[j] = cl[i]
                               THEN "closed" ELSE HState(cl[i])]]))

Sync(t, s) ==
    /\ Owns(t, s)
    /\ \E fault \in Faults :
        /\ gdbm_errno' = [gdbm_errno EXCEPT ![t] = fault]
        /\ UNCHANGED <<db, hstate, closes, gdbm>>
        /\ Complete(t, Done("sync", t, s, [db_handle |-> gdbm[s].db_handle],
                Pre, TRUE, Reply(0, TRUE, Bytes(<<>>), 0, fault), Ok("unit"),
                <<CallOn("gdbm_sync", gdbm[s].db_handle)>>))

AsRawFd(t, s) ==
    /\ Owns(t, s)
    /\ UNCHANGED world
    /\ Complete(t, Done("as_raw_fd", t, s, [db_handle |-> gdbm[s].db_handle],
            Pre, TRUE, NoReply, Ok(2 + gdbm[s].db_handle),
            <<CallOn("gdbm_fdesc", gdbm[s].db_handle)>>))

\* a value is moved to another thread (Gdbm is Send) between operations
Move(s, t2) ==
    /\ gdbm[s] # NoValue
    /\ gdbm[s].owner # t2
    /\ pend[gdbm[s].owner].op = "idle"
    /\ gdbm' = [gdbm EXCEPT ![s].owner = t2]
    /\ UNCHANGED <<db, hstate, closes, gdbm_errno, pend, last>>

Store(t, s, key, content, replace) ==
    /\ Owns(t, s)
    /\ LET c == store_call(key, content, replace)
           a == KeyArgs(key, content, replace)
           h == gdbm[s].db_handle
       IN  IF ~c.ok
           THEN /\ UNCHANGED world
                /\ Complete(t, Done("store", t, s, a, Pre, FALSE, NoReply, c,
                                    <<>>))
           ELSE \E fault \in Faults :
                LET r == gdbm_store(db, c.val.key, c.val.content, c.val.flag,
                                    fault)
                IN  /\ db' = r.db
                    /\ gdbm_errno' = [gdbm_errno EXCEPT ![t] = r.errno]
                    /\ pend' = [pend EXCEPT ![t] =
                            InCall("store", t, s, a, Pre,
                                Reply(r.rc, TRUE, Bytes(<<>>), 0, r.errno),
                                <<CallOn("gdbm_store", h)>>)]
                    /\ UNCHANGED <<hstate, closes, gdbm, last>>

Fetch(t, s, op, key) ==
    /\ Owns(t, s)
    /\ LET c == key_call(key)
           a == KeyArgs(key, Bytes(<<>>), FALSE)
           h == gdbm[s].db_handle
       IN  IF ~c.ok
           THEN /\ UNCHANGED world
                /\ Complete(t, Done(op, t, s, a, Pre, FALSE, NoReply, c, <<>>))
           ELSE \E fault \in Faults, corrupt \in BOOLEAN :
                LET r == gdbm_fetch(db, c.val.key, fault, corrupt)
                IN  /\ gdbm_errno' = [gdbm_errno EXCEPT ![t] = r.errno]
                    /\ pend' = [pend EXCEPT ![t] =
                            InCall(op, t, s, a, Pre, r,
                                   <<CallOn("gdbm_fetch", h)>>)]
                    /\ UNCHANGED <<db, hstate, closes, gdbm, last>>

Delete(t, s, key) ==
    /\ Owns(t, s)
    /\ LET c == key_call(key)
           a == KeyArgs(key, Bytes(<<>>), FALSE)
           h == gdbm[s].db_handle
       IN  IF ~c.ok
           THEN /\ UNCHANGED world
                /\ Complete(t, Done("delete", t, s, a, Pre, FALSE, NoReply, c,
                                    <<>>))
           ELSE \E fault \in Faults :
                LET r == gdbm_delete(db, c.val.key, fault)
                IN  /\ db' = r.db
                    /\ gdbm_errno' = [gdbm_errno EXCEPT ![t] = r.errno]
                    /\ pend' = [pend EXCEPT ![t] =
                            InCall("delete", t, s, a, Pre,
                                Reply(r.rc, TRUE, Bytes(<<>>), 0, r.errno),
                                <<CallOn("gdbm_delete", h)>>)]
                    /\ UNCHANGED <<hstate, closes, gdbm, last>>

Exists(t, s, key) ==
    /\ Owns(t, s)
    /\ LET c == key_call(key)
           a == KeyArgs(key, Bytes(<<>>), FALSE)
           h == gdbm[s].db_handle
       IN  IF ~c.ok
           THEN /\ UNCHANGED world
                /\ Complete(t, Done("exists", t, s, a, Pre, FALSE, NoReply, c,
                                    <<>>))
           ELSE \E fault \in Faults :
                LET r == gdbm_exists(db, c.val.key, fault)
                IN  /\ gdbm_errno' = [gdbm_errno EXCEPT ![t] = r.errno]
                    /\ pend' = [pend EXCEPT ![t] =
                            InCall("exists", t, s, a, Pre,
                                Reply(r.rc, TRUE, Bytes(<<>>), 0, r.errno),
                                <<CallOn("gdbm_exists", h)>>)]
                    /\ UNCHANGED <<db, hstate, closes, gdbm, last>>

\* the part of store, fetch_*, delete and exists after the engine call
Return(t) ==
    /\ pend[t].op # "idle"
    /\ LET p == pend[t]
           out == CASE p.op = "store" -> store_ret(p.reply.rc, t)
                    [] p.op = "fetch_data" -> fetch_data_ret(p.reply, t)
                    [] p.op = "fetch_string" -> fetch_string_ret(p.reply, t)
                    [] p.op = "fetch_cstring" -> fetch_cstring_ret(p.reply, t)
                    [] p.op = "delete" -> delete_ret(p.reply.rc, t)
                    [] p.op = "exists" -> exists_ret(p.reply.rc, t)
       IN  /\ UNCHANGED world
           /\ Complete(t, Done(p.op, t, p.s, p.a, p.pre, TRUE, p.reply,
                               out.ret, p.trace \o out.trace))

----------------------------------------------------------------------------
(* Inputs and specifications *)

\* keys: a short one, one of the largest length allowed, one a byte longer
KeysIn == {Bytes(<<107>>), Filled(<<107>>, 0), Filled(<<107>>, 1)}

\* contents: two short ones, one a byte longer than allowed
ContentsIn == {Bytes(<<97>>), Bytes(<<98>>), Filled(<<97>>, 1)}

\* arguments of Gdbm::new (block_size, flags, mode, path has a nul byte):
\* block_size 0 or 2^31, mode 0600 or 2^31
NewIn ==
    {<<U(0), WRCREAT, U(384), FALSE>>, <<U(0), NEWDB, U(384), FALSE>>,
     <<Over(1), WRCREAT, U(384), FALSE>>, <<U(0), WRCREAT, Over(1), FALSE>>,
     <<U(0), WRCREAT, U(384), TRUE>>}

\* the operations of threads T with arguments from N (new), K (keys),
\* C (contents) and the fetch variants F
Ops(T, N, K, C, F) ==
    \/ \E t \in T, n \in N : New(t, n[1], n[2], n[3], n[4])
    \/ \E t \in T, s \in Handles : Drop(t, s)
    \/ \E t \in T, s \in Handles : Sync(t, s)
    \/ \E t \in T, s \in Handles : AsRawFd(t, s)
    \/ \E t \in T, s \in Handles, k \in K, c \in C, r \in BOOLEAN :
          Store(t, s, k, c, r)
    \/ \E t \in T, s \in Handles, op \in F, k \in K : Fetch(t, s, op, k)
    \/ \E t \in T, s \in Handles, k \in K : Delete(t, s, k)
    \/ \E t \in T, s \in Handles, k \in K : Exists(t, s, k)
    \/ \E t \in T : Return(t)

\* one thread using a database that starts empty
Next == Ops({"t1"}, NewIn, KeysIn, ContentsIn, {"fetch_data"})

Spec == Init /\ [][Next]_vars

\* two threads, each with its own values, which they also hand to each other
NextMT ==
    \/ Ops(Threads, {<<U(0), WRCREAT, U(384), FALSE>>}, {Bytes(<<107>>)},
           {Bytes(<<97>>)}, {"fetch_data"})
    \/ \E s \in Handles, t \in Threads : Move(s, t)

SpecMT == Init /\ [][NextMT]_vars

\* the string fetches, on a database file that holds one record of any
\* content of up to MaxLen bytes when the program starts
Alphabet == {0, 97, 195, 169}

RECURSIVE SeqsUpTo(_)
SeqsUpTo(n) ==
    IF n = 0 THEN {<<>>}
    ELSE LET S == SeqsUpTo(n - 1)
         IN  S \cup {Append(s, b) : s \in {x \in S : Len(x) = n - 1},
                                    b \in Alphabet}

StrContents == {Bytes(s) : s \in SeqsUpTo(MaxLen)}

StrKey == Bytes(<<107>>)

InitStr ==
    /\ db \in {EmptyDb} \cup {[k \in {StrKey} |-> c] : c \in StrContents}
    /\ hstate = [h \in Handles |-> "unopened"]
    /\ closes = [h \in Handles |-> 0]
    /\ gdbm = [s \in Handles |-> NoValue]
    /\ gdbm_errno = [t \in Threads |-> 0]
    /\ pend = [t \in Threads |-> Idle]
    /\ last = Done("none", "t1", 1, KeyArgs(Bytes(<<>>), Bytes(<<>>), FALSE),
                   [db |-> EmptyDb], FALSE, NoReply, Ok(TRUE), <<>>)

NextStr ==
    \/ \E n \in {<<U(0), WRCREAT, U(384), FALSE>>} :
          New("t1", n[1], n[2], n[3], n[4])
    \/ \E s \in Handles : Drop("t1", s)
    \/ \E s \in Handles, op \in {"fetch_string", "fetch_cstring"} :
          Fetch("t1", s, op, StrKey)
    \/ Return("t1")

SpecStr == InitStr /\ [][NextStr]_vars

----------------------------------------------------------------------------
(* Properties.  `last` is the operation completed most recently; a step    *)
(* with last' # last completes an operation, and then `last` is the one    *)
(* completed just before it.                                               *)

FetchOps == {"fetch_data", "fetch_string", "fetch_cstring"}

KeyedOps == {"store", "delete", "exists"} \cup FetchOps

\* the engine call of a fetch neither failed nor handed back a corrupt datum
FetchNoFault(r) == r.errno = 0 /\ (r.null \/ r.dsize >= 0)

\* what fetch_data returns for a null dptr with no error recorded
NotFoundOutcome == Err(GdbmErrorNew(gdbm_strerror(0)))

\* what fetch_data returns for a null dptr with error e recorded
EngineFailure(e) == Err(GdbmErrorNew(gdbm_strerror(e)))

CorruptionOutcome == Err(GdbmErrorNew("content has negative size"))

\* C1: a store with replace=true that the engine carries out returns true,
\* whether or not the key was there, and a fetch of the key completed right
\* after it (the engine not failing) returns exactly the content stored.
C1_StoreReplaceRoundTrip ==
    [][ /\ (/\ last'.op = "store"
            /\ last'.called
            /\ last'.a.replace
            /\ last'.reply.rc >= 0)
           => last'.ret = Ok(TRUE)
        /\ (/\ last.op = "store"
            /\ last.called
            /\ last.a.replace
            /\ last.ret = Ok(TRUE)
            /\ last' # last
            /\ last'.op = "fetch_data"
            /\ last'.a.key = last.a.key
            /\ last'.called
            /\ FetchNoFault(last'.reply))
           => last'.ret = Ok(last.a.content) ]_vars

\* a store with replace=true has overwritten a different, earlier content
C1_Witness ==
    /\ last.op = "store"
    /\ last.called
    /\ last.a.replace
    /\ last.ret = Ok(TRUE)
    /\ last.a.key \in DOMAIN last.pre.db
    /\ last.pre.db[last.a.key] # last.a.content
    /\ db[last.a.key] = last.a.content

\* C2: a store with replace=false that the engine carries out returns
\* Ok(false) exactly when the key was present, and then leaves the database
\* as it was, so that a fetch of the key completed right after it returns the
\* earlier content; it returns Ok(true) when the key was absent.
C2_InsertOnly ==
    [][ /\ (/\ last' # last
            /\ last'.op = "store"
            /\ last'.called
            /\ ~last'.a.replace
            /\ last'.reply.rc >= 0)
           => /\ last'.a.key \in DOMAIN last'.pre.db
                 => last'.ret = Ok(FALSE) /\ db' = last'.pre.db
              /\ last'.a.key \notin DOMAIN last'.pre.db
                 => last'.ret = Ok(TRUE) /\ db'[last'.a.key] = last'.a.content
        /\ (/\ last.op = "store"
            /\ last.called
            /\ ~last.a.replace
            /\ last.ret = Ok(FALSE)
            /\ last' # last
            /\ last'.op = "fetch_data"
            /\ last'.a.key = last.a.key
            /\ last'.called
            /\ FetchNoFault(last'.reply))
           => last'.ret = Ok(last.pre.db[last.a.key]) ]_vars

\* an insert-only store of a different content was refused
C2_Witness ==
    /\ last.op = "store"
    /\ last.called
    /\ ~last.a.replace
    /\ last.ret = Ok(FALSE)
    /\ last.pre.db[last.a.key] # last.a.content
    /\ db[last.a.key] = last.pre.db[last.a.key]

\* C3: exists returns true when the engine answers "found", false when it
\* gives any other answer with no error recorded, and an error when an error
\* is recorded; so it returns true right after a successful store of the key
\* and false right after a successful delete of it.
C3_ExistsClaim ==
    [][ /\ (last'.op = "exists" /\ last'.called)
           => /\ last'.reply.rc = 0 => last'.ret = Ok(TRUE)
              /\ (last'.reply.rc # 0 /\ last'.reply.errno = 0)
                 => last'.ret = Ok(FALSE)
              /\ last'.reply.errno # 0 => ~last'.ret.ok
        /\ (/\ last.op \in {"store", "delete"}
            /\ last.called
            /\ last.ret = Ok(TRUE)
            /\ last' # last
            /\ last'.op = "exists"
            /\ last'.a.key = last.a.key
            /\ last'.called
            /\ last'.reply.errno = 0)
           => last'.ret = Ok(last.op = "store") ]_vars

\* C4: fetch_data's results for a null dptr with no error recorded, for a
\* null dptr with an error recorded and for a datum of negative size are
\* three different results.
C4_FetchOutcomes ==
    (last.op = "fetch_data" /\ last.called)
    => /\ (last.reply.null /\ last.reply.errno = 0)
          => last.ret = NotFoundOutcome
       /\ (last.reply.null /\ last.reply.errno # 0)
          => /\ last.ret = EngineFailure(last.reply.errno)
             /\ last.ret # NotFoundOutcome
       /\ (~last.reply.null /\ last.reply.dsize < 0)
          => /\ last.ret = CorruptionOutcome
             /\ last.ret # NotFoundOutcome
             /\ \A e \in ErrCodes : last.ret # EngineFailure(e)

\* a fetch whose engine call failed with an error recorded
C4_Witness ==
    /\ last.op = "fetch_data"
    /\ last.called
    /\ last.reply.null
    /\ last.reply.errno # 0
    /\ ~last.ret.ok

\* C5: a delete (of a key within the length limit) returns Ok(false) for an
\* absent key, and Ok(true) for a present one, which it removes while every
\* other key keeps its content; it returns an error only when the engine's
\* delete failed with an error recorded; a fetch of the key completed right
\* after a delete that returned true reports not-found.
C5_Delete ==
    [][ /\ (last' # last /\ last'.op = "delete" /\ last'.called)
           => LET k == last'.a.key
                  pre == last'.pre.db
              IN  /\ (last'.reply.errno = 0 /\ k \notin DOMAIN pre)
                     => last'.ret = Ok(FALSE) /\ db' = pre
                  /\ (last'.reply.errno = 0 /\ k \in DOMAIN pre)
                     => /\ last'.ret = Ok(TRUE)
                        /\ DOMAIN db' = DOMAIN pre \ {k}
                        /\ \A x \in DOMAIN db' : db'[x] = pre[x]
                  /\ ~last'.ret.ok
                     => last'.reply.rc < 0 /\ last'.reply.errno # 0
        /\ (/\ last.op = "delete"
            /\ last.called
            /\ last.ret = Ok(TRUE)
            /\ last' # last
            /\ last'.op = "fetch_data"
            /\ last'.a.key = last.a.key
            /\ last'.called
            /\ last'.reply.errno = 0)
           => last'.ret = NotFoundOutcome ]_vars

\* a delete removed one record and left another one
C5_Witness ==
    /\ last.op = "delete"
    /\ last.called
    /\ last.ret = Ok(TRUE)
    /\ last.a.key \notin DOMAIN db
    /\ DOMAIN db # {}

\* an argument that does not fit a signed 32-bit integer
Oversized(l) ==
    CASE l.op \in KeyedOps ->
            \/ gt_i32_max(len(l.a.key))
            \/ l.op = "store" /\ gt_i32_max(len(l.a.content))
      [] l.op = "new" -> gt_i32_max(l.a.block_size) \/ gt_i32_max(l.a.mode)
      [] OTHER -> FALSE

\* the local validation error for it
ValidationError(l) ==
    CASE l.op \in KeyedOps ->
            IF gt_i32_max(len(l.a.key)) THEN "key too large"
            ELSE "content too large"
      [] l.op = "new" ->
            IF gt_i32_max(l.a.block_size) THEN "block_size too large"
            ELSE "invalid mode"

\* C6: store, fetch, delete and exists with a key or content longer than
\* 2^31-1 bytes, and new with block_size or mode above 2^31-1, return the
\* local validation error, make no foreign call and leave the database, the
\* error channel and the handles as they were.
C6_ValidationBeforeForeignCall ==
    [][ (last' # last /\ Oversized(last'))
        => /\ last'.ret = Err(GdbmErrorNew(ValidationError(last')))
           /\ ~last'.called
           /\ last'.trace = <<>>
           /\ UNCHANGED <<db, gdbm_errno, hstate, closes, gdbm>> ]_vars

\* a store with a key that fits and a content that does not was refused
C6_Witness ==
    /\ last.op = "store"
    /\ ~gt_i32_max(len(last.a.key))
    /\ gt_i32_max(len(last.a.content))
    /\ ~last.ret.ok
    /\ last.trace = <<>>

\* the foreign calls that take the handle
HandleFns ==
    {"gdbm_store", "gdbm_fetch", "gdbm_delete", "gdbm_exists", "gdbm_sync",
     "gdbm_fdesc", "gdbm_close"}

OnOpenHandle(trace) ==
    \A i \in DOMAIN trace :
        trace[i].fn \in HandleFns
        => trace[i].h \in Handles /\ trace[i].st = "open"

\* C7: a Gdbm value exists only for a non-null handle that gdbm_open
\* returned and that is open; a failed open yields an error, no value and no
\* close; every handle that was opened is owned by exactly one value until
\* that value is dropped, and the drop closes it exactly once; every foreign
\* call that takes a handle is made on an open one.
C7_HandleLifecycle ==
    /\ \A s \in Handles :
        gdbm[s] # NoValue
        => /\ gdbm[s].db_handle \in Handles
           /\ hstate[gdbm[s].db_handle] = "open"
    /\ \A h \in Handles :
        LET owners == {s \in Handles : gdbm[s].db_handle = h}
        IN  /\ hstate[h] = "unopened" => closes[h] = 0 /\ owners = {}
            /\ hstate[h] = "open" => closes[h] = 0 /\ Cardinality(owners) = 1
            /\ hstate[h] = "closed" => closes[h] = 1 /\ owners = {}
    /\ OnOpenHandle(last.trace)
    /\ \A t \in Threads : pend[t].op # "idle" => OnOpenHandle(pend[t].trace)
    /\ (last.op = "new" /\ last.called /\ last.reply.null)
       => /\ ~last.ret.ok
          /\ gdbm[last.s] = NoValue
          /\ \A i \in DOMAIN last.trace : last.trace[i].fn # "gdbm_close"
    /\ (last.op = "new" /\ last.ret.ok)
       => last.called /\ ~last.reply.null
    /\ last.op = "drop"
       => /\ Len(last.trace) = 1
          /\ last.trace[1].fn = "gdbm_close"
          /\ last.trace[1].h = last.a.db_handle

\* a value was dropped and its handle closed, once
C7_Witness ==
    /\ last.op = "drop"
    /\ hstate[last.a.db_handle] = "closed"
    /\ closes[last.a.db_handle] = 1
    /\ gdbm[last.s] = NoValue

\* C8: for stored bytes b, fetch_string returns b when b is valid UTF-8 and
\* the invalid-encoding error otherwise; fetch_cstring does the same, except
\* that of a valid b ending in a zero byte it returns b without that one
\* byte; both return fetch_data's error when the engine returns no record.
C8_StringFetch ==
    (last.op \in {"fetch_string", "fetch_cstring"} /\ last.called)
    => IF last.reply.null THEN last.ret = EngineFailure(last.reply.errno)
       ELSE IF last.reply.dsize < 0 THEN last.ret = CorruptionOutcome
       ELSE LET b == last.pre.db[last.a.key]
                n == Len(b.bytes)
            IN  IF ~Utf8ValidSeq(b.bytes) THEN last.ret = Err(FromUtf8Error)
                ELSE IF last.op = "fetch_cstring" /\ n > 0 /\ b.bytes[n] = 0
                THEN /\ last.ret.ok
                     /\ last.ret.val = Bytes(SubSeq(b.bytes, 1, n - 1))
                ELSE last.ret = Ok(b)

\* fetch_cstring of bytes ending in two zero bytes kept one of them
C8_Witness ==
    /\ last.op = "fetch_cstring"
    /\ last.called
    /\ last.a.key \in DOMAIN last.pre.db
    /\ last.pre.db[last.a.key] = Bytes(<<0, 0>>)
    /\ last.ret = Ok(Bytes(<<0>>))

\* C9: a fetch releases the buffer the engine returned exactly once when the
\* dptr is not null, on every path, does not read it after the release, and
\* releases nothing when the dptr is null.
C9_BufferReleasedOnce ==
    (last.op \in FetchOps /\ last.called)
    => LET frees == {i \in DOMAIN last.trace : last.trace[i].fn = "free"}
           reads == {i \in DOMAIN last.trace : last.trace[i].fn = "read_buf"}
       IN  /\ last.reply.null => frees = {}
           /\ ~last.reply.null => Cardinality(frees) = 1
           /\ \A r \in reads, f \in frees : r < f

\* the engine call of an operation signalled failure, or not-found-or-error
Signalled(l) ==
    CASE l.op = "store" -> l.reply.rc < 0
      [] l.op \in FetchOps -> l.reply.null
      [] l.op = "delete" -> l.reply.rc < 0
      [] l.op = "exists" -> l.reply.rc # 0
      [] OTHER -> FALSE

\* C10: while a thread is between its engine call and its return, its error
\* channel holds what that call recorded, whatever the other threads call;
\* when the call signalled failure, the thread's next foreign interaction is
\* the read of the error channel, nothing but error-channel calls follows,
\* and the error returned carries the message of the code that call recorded.
C10_ErrorReadFollowsCall ==
    /\ \A t \in Threads :
        pend[t].op # "idle" => gdbm_errno[t] = pend[t].reply.errno
    /\ (last.op \in KeyedOps /\ last.called /\ Signalled(last))
       => /\ Len(last.trace) >= 2
          /\ last.trace[1].fn \in HandleFns
          /\ last.trace[2].fn = "gdbm_errno_location"
          /\ \A i \in 2..Len(last.trace) :
                last.trace[i].fn \in {"gdbm_errno_location", "gdbm_strerror"}
          /\ last.reply.errno # 0 => ~last.ret.ok
          /\ ~last.ret.ok
             => last.ret = Err(GdbmErrorNew(gdbm_strerror(last.reply.errno)))

\* a thread read the error of its failed delete while the other thread was
\* inside a call of its own
C10_Witness ==
    /\ last.op = "delete"
    /\ last.t = "t2"
    /\ last.called
    /\ last.reply.errno # 0
    /\ ~last.ret.ok
    /\ pend["t1"].op # "idle"

====
